---- MODULE Spec2Model ----
(***************************************************************************)
(* A model of the congressional-speech pipeline:                           *)
(*   - CongressionalSpeechMatcher (src/match_politicians_info.py), the     *)
(*     speaker-resolution cascade, under the specification Spec;           *)
(*   - CongressionalSpeechExtractor.extract_speeches                       *)
(*     (src/speeches_scraper.py), the segmenter, under SpecSegment;        *)
(*   - assign_congress_number and get_congress_number, the two session     *)
(*     numbering rules, under SpecSession.                                 *)
(* Tables (pandas DataFrames) are sequences of records; a row's "idx"      *)
(* field is its index label.  Strings that the code only compares are      *)
(* TLA+ strings; strings that the code splits are sequences of tokens.     *)
(***************************************************************************)
EXTENDS Integers, Sequences, FiniteSets, TLC

(***************************************************************************)
(* Bounds of the model.                                                    *)
(***************************************************************************)
\* the largest number of speeches of one session's speech table
MaxSpeeches == 3
\* the largest index label a speech row carries (labels are 0..MaxLabel)
MaxLabel == 2
\* the largest number of speeches of a speech table of SpecSmall, whose index
\* labels are 0..(MaxRows - 1)
MaxRows == 2

(***************************************************************************)
(* Missing values.                                                         *)
(***************************************************************************)
\* pd.NA / NaN of a string column
NA == "<NA>"
\* NaN of a numeric column (roster row label, similarity_score); None of a
\* congress number
NaN == -1
\* a missing timestamp
NaT == <<>>

VARIABLES
    \* ---- CongressionalSpeechMatcher ----
    in_speeches,                 \* the caller's speech table (constructor argument)
    in_roster,                   \* the caller's roster table (constructor argument)
    df_speeches,                 \* self.df_speeches
    df_politician_info,          \* self.df_politician_info
    df_all_three,                \* the four buckets of _split_speeches_by_matching_criteria
    df_state_lastname_only,
    df_lastname_only,
    df_firstname_lastname_only,
    df_matched_all_3,            \* result of the exact tier on df_all_three
    df_remaining,                \* what the approximate tier is given of df_all_three
    df_long_name,                \* result of the approximate tier on df_firstname_lastname_only
    datasets,                    \* the list of tier results
    combined_df,                 \* the table match_speakers returns
    raised,                      \* the exception that ended match_speakers, or "none"
    pc,                          \* the position of match_speakers
    \* ---- session numbering ----
    date,                        \* the timestamp <<year, month, day>>, or NaT
    congress_number,             \* assign_congress_number(date)
    roster_congress,             \* get_congress_number(date, is_start_date=True)
    ses_pc,                      \* what has been computed for date
    \* ---- CongressionalSpeechExtractor ----
    pdf_df,                      \* self.pdf_df: rows of content and issueDate
    cleaned_text,                \* cleaned_text of each row of pdf_df
    matches,                     \* the matches re.findall found in each cleaned_text
    data,                        \* the speech records collected
    speeches_by_congress,        \* what extract_speeches returns
    seg_raised,                  \* the exception that ended extract_speeches, or "none"
    seg_pc,                      \* the position of extract_speeches
    \* ---- _clean_text applied twice ----
    raw_text,                    \* the raw text
    once,                        \* _clean_text(raw_text)
    twice,                       \* _clean_text(_clean_text(raw_text))
    clean_pc,                    \* how many times _clean_text has been applied
    \* ---- calculate_congresses_served ----
    start_date,                  \* the start of the term, <<year, month, day>>
    end_date,                    \* the end of the term
    congresses_served,           \* calculate_congresses_served(start_date, end_date)
    served_pc,                   \* whether the function has returned
    \* ---- process_legislators_data ----
    legislators,                 \* data: the terms of each legislator record
    target_congress,             \* the session c of target_congress_numbers = [c]
    result,                      \* the rows of the DataFrame returned
    roster_pc                    \* whether the function has returned

matchVars == <<in_speeches, in_roster, df_speeches, df_politician_info, df_all_three,
               df_state_lastname_only, df_lastname_only, df_firstname_lastname_only,
               df_matched_all_3, df_remaining, df_long_name, datasets, combined_df,
               raised, pc>>

sesVars == <<date, congress_number, roster_congress, ses_pc>>

segVars == <<pdf_df, cleaned_text, matches, data, speeches_by_congress,
             seg_raised, seg_pc>>

cleanVars == <<raw_text, once, twice, clean_pc>>

\* the variables of the functions that are modelled on their own
servedVars == <<start_date, end_date, congresses_served, served_pc>>

rosterVars == <<legislators, target_congress, result, roster_pc>>

auxVars == <<cleanVars, servedVars, rosterVars>>

vars == <<matchVars, sesVars, segVars, auxVars>>

CleanIdle ==
    /\ raw_text = <<>>
    /\ once = <<>>
    /\ twice = <<>>
    /\ clean_pc = "idle"

ServedIdle ==
    /\ start_date = NaT
    /\ end_date = NaT
    /\ congresses_served = <<>>
    /\ served_pc = "idle"

RosterIdle ==
    /\ legislators = <<>>
    /\ target_congress = NaN
    /\ result = <<>>
    /\ roster_pc = "idle"

\* the functions that are modelled on their own are not running
AuxIdle == CleanIdle /\ ServedIdle /\ RosterIdle

(***************************************************************************)
(* Generic helpers on sequences.                                           *)
(***************************************************************************)
Range(s) == {s[i] : i \in 1..Len(s)}

RECURSIVE Flatten(_)
Flatten(ss) == IF ss = <<>> THEN <<>> ELSE Head(ss) \o Flatten(Tail(ss))

\* the increasing sequence of the elements of a finite set of integers
RECURSIVE SortedSeq(_)
SortedSeq(S) ==
    IF S = {} THEN <<>>
    ELSE LET m == CHOOSE x \in S : \A y \in S : x <= y
         IN <<m>> \o SortedSeq(S \ {m})

\* sep.join(parts) for strings
RECURSIVE Join(_, _)
Join(parts, sep) ==
    IF parts = <<>> THEN ""
    ELSE IF Len(parts) = 1 THEN parts[1]
    ELSE parts[1] \o sep \o Join(Tail(parts), sep)

(***************************************************************************)
(* Strings of the model and the conversions the matcher applies to them.   *)
(***************************************************************************)
\* str.lower() followed by unidecode, on the strings of the model
Lower(s) ==
    CASE s = "SMITH"   -> "smith"
      [] s = "JOHN"    -> "john"
      [] s = "JACKSON" -> "jackson"
      [] s = "LEE"     -> "lee"
      [] s = "TED"     -> "ted"
      [] s = "CRUZ"    -> "cruz"
      [] s = "Ohio"    -> "ohio"
      [] s = "Texas"   -> "texas"
      [] s = "NORTON"   -> "norton"
      [] s = "District" -> "district"
      [] s = "Columbia" -> "columbia"
      [] s = "John Smith"         -> "john smith"
      [] s = "Jane Smith"         -> "jane smith"
      [] s = "Sheila Jackson Lee" -> "sheila jackson lee"
      [] s = "John A. Smith Jr."  -> "john a. smith jr."
      [] s = "Smith"       -> "smith"
      [] s = "John"        -> "john"
      [] s = "Jane"        -> "jane"
      [] s = "Sheila"      -> "sheila"
      [] s = "Jackson Lee" -> "jackson lee"
      [] OTHER -> s

LowerTokens(toks) == [i \in 1..Len(toks) |-> Lower(toks[i])]

\* position of the first " of " separator of a token string at or after
\* position from, 0 when there is none: the separator needs a character
\* before its leading space and after its trailing space
RECURSIVE FirstOf(_, _)
FirstOf(toks, from) ==
    IF from >= Len(toks) THEN 0
    ELSE IF from > 1 /\ toks[from] = "of" THEN from
    ELSE FirstOf(toks, from + 1)

\* position of the last separator that x.split(" of ") uses, given one at i:
\* separators do not overlap, so the next one starts two tokens later
RECURSIVE LastOf(_, _)
LastOf(toks, i) ==
    IF FirstOf(toks, i + 2) = 0 THEN i ELSE LastOf(toks, FirstOf(toks, i + 2))

HasOf(toks) == FirstOf(toks, 2) # 0

\* x.split(" of ")[-1]
SplitOfLast(toks) == SubSeq(toks, LastOf(toks, FirstOf(toks, 2)) + 1, Len(toks))

\* x.split(" of ")[0]
SplitOfFirst(toks) == SubSeq(toks, 1, FirstOf(toks, 2) - 1)

\* fuzzywuzzy's default scorer (WRatio after full_process) of process.extract,
\* tabulated for the speaker strings and the display names of the model
WRatio(query, choice) ==
    CASE query = "john smith" /\ choice = "john smith"           -> 100
      [] query = "john smith" /\ choice = "jane smith"           -> 80
      [] query = "john smith" /\ choice = "sheila jackson lee"   -> 43
      [] query = "john smith" /\ choice = "john a. smith jr."    -> 86
      [] query = "jackson lee" /\ choice = "john smith"          -> 38
      [] query = "jackson lee" /\ choice = "jane smith"          -> 29
      [] query = "jackson lee" /\ choice = "sheila jackson lee"  -> 90
      [] query = "jackson lee" /\ choice = "john a. smith jr."   -> 30
      [] query = "ted cruz" /\ choice = "john smith"             -> 21
      [] query = "ted cruz" /\ choice = "jane smith"             -> 21
      [] query = "ted cruz" /\ choice = "sheila jackson lee"     -> 32
      [] query = "ted cruz" /\ choice = "john a. smith jr."      -> 41

\* the acceptance threshold of the approximate tier
threshold == 50

(***************************************************************************)
(* The inputs: speaker fragments as the segmenter emits them, and roster   *)
(* rows as the roster construction emits them.                             *)
(***************************************************************************)
Fragments ==
    { <<"SMITH", "of", "Ohio">>,
      <<"JOHN", "SMITH", "of", "Ohio">>,
      <<"SMITH">>,
      <<"JACKSON", "LEE">>,
      <<"JACKSON", "LEE", "of", "Texas">>,
      <<"TED", "CRUZ">>,
      <<"TED", "CRUZ", "of", "Ohio">>,
      <<"NORTON", "of", "the", "District", "of", "Columbia">> }

\* the legislators a roster is drawn from; display names are pairwise distinct
RosterPool ==
    << [name |-> "John Smith", first_name |-> "John", last_name |-> "Smith",
        state |-> "ohio"],
       [name |-> "Jane Smith", first_name |-> "Jane", last_name |-> "Smith",
        state |-> "ohio"],
       [name |-> "Sheila Jackson Lee", first_name |-> "Sheila",
        last_name |-> "Jackson Lee", state |-> "texas"],
       [name |-> "John A. Smith Jr.", first_name |-> "John", last_name |-> "Smith",
        state |-> "ohio"] >>

\* the sessions main.py matches
Sessions == {114, 115, 116, 117, 118}

\* a table with the default RangeIndex: row i carries label i - 1
WithRangeIndex(rows) ==
    [i \in 1..Len(rows) |-> [idx |-> i - 1] @@ rows[i]]

\* the rosters: the non-empty sub-tables of the pool, in pool order
Rosters ==
    { WithRangeIndex([i \in 1..Cardinality(S) |-> RosterPool[SortedSeq(S)[i]]]) :
        S \in (SUBSET (1..Len(RosterPool))) \ {{}} }

\* the speech tables of one session: a group of the extractor's table, so its
\* index labels are increasing but need not start at 0 nor be contiguous
SpeechTables ==
    UNION { { [i \in 1..Cardinality(L) |->
                 [idx |-> SortedSeq(L)[i], speaker |-> f[i], congress_number |-> c]] :
              f \in [1..Cardinality(L) -> Fragments], c \in Sessions } :
            L \in { X \in SUBSET (0..MaxLabel) :
                      Cardinality(X) >= 1 /\ Cardinality(X) <= MaxSpeeches } }

\* the speech tables of SpecSmall
SmallSpeechTables ==
    UNION { { [i \in 1..Cardinality(L) |->
                 [idx |-> SortedSeq(L)[i], speaker |-> f[i], congress_number |-> c]] :
              f \in [1..Cardinality(L) -> Fragments], c \in Sessions } :
            L \in (SUBSET (0..(MaxRows - 1))) \ {{}} }

(***************************************************************************)
(* CongressionalSpeechMatcher: the pure steps.                             *)
(* An output row keeps the columns that identify it: speech_id and speaker *)
(* of the speech, leg (the index label of the roster row whose columns the *)
(* row carries, NaN when they are missing), matched_by, similarity_score.  *)
(* The other columns of a row are those of speech speech_id and of roster  *)
(* row leg.                                                                *)
(***************************************************************************)
\* _preprocess_speaker_names, one row
PreprocessSpeaker(row) ==
    LET low   == LowerTokens(row.speaker)
        state == IF HasOf(low) THEN Join(SplitOfLast(low), " ") ELSE NA
        name  == IF HasOf(low) THEN SplitOfFirst(low) ELSE low
    IN [idx             |-> row.idx,
        speaker         |-> name,
        state           |-> state,
        first_name      |-> IF Len(name) > 1 THEN name[1] ELSE NA,
        last_name       |-> name[Len(name)],
        congress_number |-> row.congress_number]

\* _preprocess_politician_info, one row (the roster has no sort_name and no
\* area column, and no column is missing on 90% of the rows)
PreprocessPolitician(row) ==
    [row EXCEPT !.name = Lower(@), !.first_name = Lower(@), !.last_name = Lower(@)]

\* the K-tuple of a row
Key(row, match_columns) == [i \in 1..Len(match_columns) |-> row[match_columns[i]]]

\* df.drop_duplicates(subset=match_columns, keep=False)
DropDuplicatesKeepFalse(df, match_columns) ==
    LET dup(i) == \E j \in 1..Len(df) :
                     j # i /\ Key(df[j], match_columns) = Key(df[i], match_columns)
        keep == {i \in 1..Len(df) : ~dup(i)}
    IN [k \in 1..Cardinality(keep) |-> df[SortedSeq(keep)[k]]]

\* validate="many_to_one": the merge keys are unique in the right table
ManyToOne(right, match_columns) ==
    \A i, j \in 1..Len(right) :
        Key(right[i], match_columns) = Key(right[j], match_columns) => i = j

\* pd.merge(df, right, on=match_columns, how="inner"): the rows of the left table
\* in order, each with every right row of the same key; a new RangeIndex
Merge(df, right, match_columns) ==
    LET hits(i) == SelectSeq(right,
                      LAMBDA r : Key(r, match_columns) = Key(df[i], match_columns))
        pairs == Flatten([i \in 1..Len(df) |->
                    [k \in 1..Len(hits(i)) |->
                        [speech_id |-> df[i].speech_id, speaker |-> df[i].speaker,
                         leg |-> hits(i)[k].idx]]])
    IN WithRangeIndex(pairs)

\* _match_speakers_with_criteria
MatchSpeakersWithCriteria(df, politician_info, match_columns) ==
    LET df_politician_info_unique ==
            DropDuplicatesKeepFalse(politician_info, match_columns)
        df_matched == Merge(df, df_politician_info_unique, match_columns)
    IN [i \in 1..Len(df_matched) |->
          df_matched[i] @@ [matched_by |-> Join(match_columns, ", "),
                            similarity_score |-> 100]]

\* the roster rows the approximate tier scores a speech against
CorrectState(politician_info, state) ==
    IF state # NA THEN SelectSeq(politician_info, LAMBDA r : r.state = state)
    ELSE politician_info

\* process.extract(speaker, names, limit=1): the first candidate of the highest
\* score, as <<position>>, or <<>> when there is no candidate
ExtractOne(speaker, candidates) ==
    IF candidates = <<>> THEN <<>>
    ELSE LET best == CHOOSE i \in 1..Len(candidates) :
                 /\ \A j \in 1..Len(candidates) :
                       WRatio(Join(speaker, " "), candidates[j].name)
                          <= WRatio(Join(speaker, " "), candidates[i].name)
                 /\ \A j \in 1..(i - 1) :
                       WRatio(Join(speaker, " "), candidates[j].name)
                          < WRatio(Join(speaker, " "), candidates[i].name)
         IN <<best>>

\* the loop body of _match_by_fuzzy_long_name: <<matched_row>> when the best
\* candidate is accepted, <<>> otherwise
BestMatch(row, politician_info) ==
    LET df_correct_state == CorrectState(politician_info, row.state)
        closest_matches  == ExtractOne(row.speaker, df_correct_state)
    IN IF closest_matches = <<>> THEN <<>>
       ELSE LET cand  == df_correct_state[closest_matches[1]]
                score == WRatio(Join(row.speaker, " "), cand.name)
            IN IF score >= threshold
               THEN << [leg |-> cand.idx,
                        similarity_score |-> score,
                        matched_by |-> IF row.state # NA THEN "long_name, state"
                                       ELSE "long_name"] >>
               ELSE <<>>

\* pd.concat([df_reset, df_best_matches_reset], axis=1): row i of the speeches
\* beside row i of the accepted matches, NaN where there is no such match
ConcatColumns(df, best_matches) ==
    [i \in 1..Len(df) |->
        [idx |-> i - 1, speech_id |-> df[i].speech_id, speaker |-> df[i].speaker]
        @@ (IF i <= Len(best_matches) THEN best_matches[i]
            ELSE [leg |-> NaN, similarity_score |-> NaN, matched_by |-> NA])]

\* _match_by_fuzzy_long_name; <<>> is the DataFrame without columns
MatchByFuzzyLongName(df, politician_info) ==
    LET best_matches == Flatten([i \in 1..Len(df) |-> BestMatch(df[i], politician_info)])
    IN IF best_matches = <<>> THEN <<>> ELSE ConcatColumns(df, best_matches)

\* the exception lists with "jackson lee" left out of the list of session 118
RemovePatternsWithoutJacksonLee(congress) ==
    CASE congress = 115 -> << <<"barraga", "n">> >>
      [] congress = 116 -> << <<"luja", "n">>, <<"barraga", "n">>, <<"luga", "n">> >>
      [] congress = 117 -> << <<"barraga", "n">>, <<"c", "rdenas">> >>
      [] congress = 118 -> << <<"barraga", "n">>, <<"cline", "member">> >>
      [] OTHER -> <<>>

\* the exception list of the session (match_speakers)
RemovePatterns(congress) ==
    CASE congress = 115 -> << <<"barraga", "n">> >>
      [] congress = 116 -> << <<"luja", "n">>, <<"barraga", "n">>, <<"luga", "n">> >>
      [] congress = 117 -> << <<"barraga", "n">>, <<"c", "rdenas">> >>
      [] congress = 118 -> << <<"barraga", "n">>, <<"jackson", "lee">>,
                              <<"cline", "member">> >>
      [] OTHER -> <<>>

\* str.contains(pattern, case=False) on a speaker column value (the words of
\* the lower-cased speaker): the words of the pattern occur in a row.  No word
\* of the model is a proper part of a word of a pattern.
Contains(speaker, pattern) ==
    \E k \in 0..(Len(speaker) - Len(pattern)) :
        SubSeq(speaker, k + 1, k + Len(pattern)) = LowerTokens(pattern)

\* a cleanup that returns after the first pattern of the list
CleanupFirstPatternOnly(df, remove_patterns) ==
    SelectSeq(df, LAMBDA r : \A k \in 1..Len(remove_patterns) :
                                k = 1 => ~Contains(r.speaker, remove_patterns[k]))

\* _cleanup_long_name_matches on a table that has a speaker column
CleanupLongNameMatches(df, remove_patterns) ==
    SelectSeq(df, LAMBDA r : \A k \in 1..Len(remove_patterns) :
                                ~Contains(r.speaker, remove_patterns[k]))

\* the columns of a row that drop_duplicates compares (all but the index)
Columns(row) == [speech_id |-> row.speech_id, speaker |-> row.speaker,
                 leg |-> row.leg, matched_by |-> row.matched_by,
                 similarity_score |-> row.similarity_score]

\* _finalize_matched_dataset: drop_duplicates keeps the first of equal rows;
\* there is no term column to drop
FinalizeMatchedDataset(df) ==
    LET keep == {i \in 1..Len(df) :
                    \A j \in 1..(i - 1) : Columns(df[j]) # Columns(df[i])}
    IN [k \in 1..Cardinality(keep) |-> df[SortedSeq(keep)[k]]]

(***************************************************************************)
(* CongressionalSpeechMatcher: match_speakers as a sequence of steps.      *)
(***************************************************************************)
\* a constructor that keeps the caller's tables themselves
SharesWithoutCopy == TRUE

\* self.df_speeches and self.df_politician_info are the caller's objects:
\* __init__ stores df.copy(), so they are not
SharesCallersTables == FALSE

InitMatch ==
    /\ in_speeches \in SpeechTables
    /\ in_roster \in Rosters
    /\ df_speeches = in_speeches              \* __init__: df_speeches.copy()
    /\ df_politician_info = in_roster         \* __init__: df_politician_info.copy()
    /\ df_all_three = <<>>
    /\ df_state_lastname_only = <<>>
    /\ df_lastname_only = <<>>
    /\ df_firstname_lastname_only = <<>>
    /\ df_matched_all_3 = <<>>
    /\ df_remaining = <<>>
    /\ df_long_name = <<>>
    /\ datasets = <<>>
    /\ combined_df = <<>>
    /\ raised = "none"
    /\ pc = "preprocess"
    /\ date = NaT
    /\ congress_number = NaN
    /\ roster_congress = NaN
    /\ ses_pc = "idle"
    /\ pdf_df = <<>>
    /\ cleaned_text = <<>>
    /\ matches = <<>>
    /\ data = <<>>
    /\ speeches_by_congress = <<>>
    /\ seg_raised = "none"
    /\ seg_pc = "idle"
    /\ AuxIdle

\* lines 27-31: _preprocess_speaker_names and _preprocess_politician_info
Preprocess ==
    /\ pc = "preprocess"
    /\ df_speeches' = [i \in 1..Len(df_speeches) |-> PreprocessSpeaker(df_speeches[i])]
    /\ df_politician_info' =
          [i \in 1..Len(df_politician_info) |-> PreprocessPolitician(df_politician_info[i])]
    /\ in_speeches' = IF SharesCallersTables THEN df_speeches' ELSE in_speeches
    /\ in_roster' = IF SharesCallersTables THEN df_politician_info' ELSE in_roster
    /\ pc' = "split"
    /\ UNCHANGED <<sesVars, segVars, auxVars>>
    /\ UNCHANGED <<df_all_three, df_state_lastname_only,
                   df_lastname_only, df_firstname_lastname_only, df_matched_all_3,
                   df_remaining, df_long_name, datasets, combined_df, raised>>

\* the split with a last-name-only bucket that does not test the state
SplitWithoutStateTest ==
    /\ pc = "split"
    /\ LET df == [i \in 1..Len(df_speeches) |->
                    df_speeches[i] @@ [speech_id |-> df_speeches[i].idx]]
       IN /\ df_speeches' = df
          /\ df_all_three' = SelectSeq(df, LAMBDA r :
                r.state # NA /\ r.first_name # NA /\ r.last_name # NA)
          /\ df_state_lastname_only' = SelectSeq(df, LAMBDA r :
                r.state # NA /\ r.last_name # NA /\ r.first_name = NA)
          /\ df_lastname_only' = SelectSeq(df, LAMBDA r :
                r.last_name # NA /\ r.first_name = NA)
          /\ df_firstname_lastname_only' = SelectSeq(df, LAMBDA r :
                r.first_name # NA /\ r.last_name # NA /\ r.state = NA)
    /\ in_speeches' = IF SharesCallersTables THEN df_speeches' ELSE in_speeches
    /\ pc' = "match_all_3"
    /\ UNCHANGED <<sesVars, segVars, auxVars>>
    /\ UNCHANGED <<in_roster, df_politician_info, df_matched_all_3,
                   df_remaining, df_long_name, datasets, combined_df, raised>>

\* lines 35-40: _split_speeches_by_matching_criteria
SplitSpeechesByMatchingCriteria ==
    /\ pc = "split"
    /\ LET df == [i \in 1..Len(df_speeches) |->
                    df_speeches[i] @@ [speech_id |-> df_speeches[i].idx]]
       IN /\ df_speeches' = df
          /\ df_all_three' = SelectSeq(df, LAMBDA r :
                r.state # NA /\ r.first_name # NA /\ r.last_name # NA)
          /\ df_state_lastname_only' = SelectSeq(df, LAMBDA r :
                r.state # NA /\ r.last_name # NA /\ r.first_name = NA)
          /\ df_lastname_only' = SelectSeq(df, LAMBDA r :
                r.last_name # NA /\ r.first_name = NA /\ r.state = NA)
          /\ df_firstname_lastname_only' = SelectSeq(df, LAMBDA r :
                r.first_name # NA /\ r.last_name # NA /\ r.state = NA)
    /\ in_speeches' = IF SharesCallersTables THEN df_speeches' ELSE in_speeches
    /\ pc' = "match_all_3"
    /\ UNCHANGED <<sesVars, segVars, auxVars>>
    /\ UNCHANGED <<in_roster, df_politician_info, df_matched_all_3,
                   df_remaining, df_long_name, datasets, combined_df, raised>>

\* one exact tier of match_speakers: pd.merge raises MergeError when the keys
\* of the right table are not unique, else the tier's result joins datasets
ExactTier(df, match_columns, next) ==
    IF ManyToOne(DropDuplicatesKeepFalse(df_politician_info, match_columns),
                 match_columns)
    THEN /\ datasets' = Append(datasets,
               MatchSpeakersWithCriteria(df, df_politician_info, match_columns))
         /\ pc' = next
         /\ UNCHANGED raised
    ELSE /\ raised' = "MergeError"
         /\ pc' = "raised"
         /\ UNCHANGED datasets

\* lines 45-49: the exact tier on (state, first_name, last_name)
MatchAllThree ==
    /\ pc = "match_all_3"
    /\ ExactTier(df_all_three, <<"state", "first_name", "last_name">>,
                 "match_state_lastname")
    /\ df_matched_all_3' = IF pc' = "raised" THEN df_matched_all_3
                           ELSE datasets'[Len(datasets')]
    /\ UNCHANGED <<sesVars, segVars, auxVars>>
    /\ UNCHANGED <<in_speeches, in_roster, df_speeches, df_politician_info, df_all_three,
                   df_state_lastname_only, df_lastname_only, df_firstname_lastname_only,
                   df_remaining, df_long_name, combined_df>>

\* lines 51-55: the exact tier on (state, last_name)
MatchStateLastname ==
    /\ pc = "match_state_lastname"
    /\ ExactTier(df_state_lastname_only, <<"state", "last_name">>, "match_lastname")
    /\ UNCHANGED <<sesVars, segVars, auxVars>>
    /\ UNCHANGED <<in_speeches, in_roster, df_speeches, df_politician_info, df_all_three,
                   df_state_lastname_only, df_lastname_only, df_firstname_lastname_only,
                   df_matched_all_3, df_remaining, df_long_name, combined_df>>

\* lines 57-61: the exact tier on (last_name)
MatchLastname ==
    /\ pc = "match_lastname"
    /\ ExactTier(df_lastname_only, <<"last_name">>, "fuzzy_remaining")
    /\ UNCHANGED <<sesVars, segVars, auxVars>>
    /\ UNCHANGED <<in_speeches, in_roster, df_speeches, df_politician_info, df_all_three,
                   df_state_lastname_only, df_lastname_only, df_firstname_lastname_only,
                   df_matched_all_3, df_remaining, df_long_name, combined_df>>

\* lines 63-66: the approximate tier on the rows of df_all_three whose index
\* label is not an index label of df_matched_all_3
FuzzyRemaining ==
    /\ pc = "fuzzy_remaining"
    /\ df_remaining' = SelectSeq(df_all_three, LAMBDA r :
          ~(\E k \in 1..Len(df_matched_all_3) : df_matched_all_3[k].idx = r.idx))
    /\ datasets' = Append(datasets, MatchByFuzzyLongName(df_remaining', df_politician_info))
    /\ pc' = "fuzzy_long_name"
    /\ UNCHANGED <<sesVars, segVars, auxVars>>
    /\ UNCHANGED <<in_speeches, in_roster, df_speeches, df_politician_info, df_all_three,
                   df_state_lastname_only, df_lastname_only, df_firstname_lastname_only,
                   df_matched_all_3, df_long_name, combined_df, raised>>

\* lines 68-69: the approximate tier on df_firstname_lastname_only
FuzzyLongName ==
    /\ pc = "fuzzy_long_name"
    /\ df_long_name' = MatchByFuzzyLongName(df_firstname_lastname_only, df_politician_info)
    /\ pc' = "cleanup"
    /\ UNCHANGED <<sesVars, segVars, auxVars>>
    /\ UNCHANGED <<in_speeches, in_roster, df_speeches, df_politician_info, df_all_three,
                   df_state_lastname_only, df_lastname_only, df_firstname_lastname_only,
                   df_matched_all_3, df_remaining, datasets, combined_df, raised>>

\* df_firstname_lastname_only["congress_number"].unique()
CongressOfBucket == {df_firstname_lastname_only[i].congress_number :
                        i \in 1..Len(df_firstname_lastname_only)}

\* lines 71-73: assert len(congress) == 1 fails
CongressAssertionFails ==
    /\ pc = "cleanup"
    /\ Cardinality(CongressOfBucket) # 1
    /\ raised' = "AssertionError"
    /\ pc' = "raised"
    /\ UNCHANGED <<sesVars, segVars, auxVars>>
    /\ UNCHANGED <<in_speeches, in_roster, df_speeches, df_politician_info, df_all_three,
                   df_state_lastname_only, df_lastname_only, df_firstname_lastname_only,
                   df_matched_all_3, df_remaining, df_long_name, datasets, combined_df>>

\* lines 86-88 with 299-301: df["speaker"] on the DataFrame without columns
CleanupKeyError ==
    /\ pc = "cleanup"
    /\ Cardinality(CongressOfBucket) = 1
    /\ LET congress == CHOOSE c \in CongressOfBucket : TRUE
       IN RemovePatterns(congress) # <<>> /\ df_long_name = <<>>
    /\ raised' = "KeyError"
    /\ pc' = "raised"
    /\ UNCHANGED <<sesVars, segVars, auxVars>>
    /\ UNCHANGED <<in_speeches, in_roster, df_speeches, df_politician_info, df_all_three,
                   df_state_lastname_only, df_lastname_only, df_firstname_lastname_only,
                   df_matched_all_3, df_remaining, df_long_name, datasets, combined_df>>

\* lines 71-89: the session's exception list is applied to df_long_name
Cleanup ==
    /\ pc = "cleanup"
    /\ Cardinality(CongressOfBucket) = 1
    /\ LET congress == CHOOSE c \in CongressOfBucket : TRUE
       IN /\ ~(RemovePatterns(congress) # <<>> /\ df_long_name = <<>>)
          /\ datasets' = Append(datasets,
                CleanupLongNameMatches(df_long_name, RemovePatterns(congress)))
    /\ pc' = "finalize"
    /\ UNCHANGED <<sesVars, segVars, auxVars>>
    /\ UNCHANGED <<in_speeches, in_roster, df_speeches, df_politician_info, df_all_three,
                   df_state_lastname_only, df_lastname_only, df_firstname_lastname_only,
                   df_matched_all_3, df_remaining, df_long_name, combined_df, raised>>

\* lines 91-97: pd.concat(datasets, axis=0) and _finalize_matched_dataset
Finalize ==
    /\ pc = "finalize"
    /\ combined_df' = FinalizeMatchedDataset(Flatten(datasets))
    /\ pc' = "done"
    /\ UNCHANGED <<sesVars, segVars, auxVars>>
    /\ UNCHANGED <<in_speeches, in_roster, df_speeches, df_politician_info, df_all_three,
                   df_state_lastname_only, df_lastname_only, df_firstname_lastname_only,
                   df_matched_all_3, df_remaining, df_long_name, datasets, raised>>

NextMatch ==
    \/ Preprocess
    \/ SplitSpeechesByMatchingCriteria
    \/ MatchAllThree
    \/ MatchStateLastname
    \/ MatchLastname
    \/ FuzzyRemaining
    \/ FuzzyLongName
    \/ CongressAssertionFails
    \/ CleanupKeyError
    \/ Cleanup
    \/ Finalize

Spec == InitMatch /\ [][NextMatch]_vars

\* match_speakers on the speech tables of at most MaxRows speeches
InitMatchSmall ==
    /\ in_speeches \in SmallSpeechTables
    /\ in_roster \in Rosters
    /\ df_speeches = in_speeches
    /\ df_politician_info = in_roster
    /\ df_all_three = <<>>
    /\ df_state_lastname_only = <<>>
    /\ df_lastname_only = <<>>
    /\ df_firstname_lastname_only = <<>>
    /\ df_matched_all_3 = <<>>
    /\ df_remaining = <<>>
    /\ df_long_name = <<>>
    /\ datasets = <<>>
    /\ combined_df = <<>>
    /\ raised = "none"
    /\ pc = "preprocess"
    /\ date = NaT
    /\ congress_number = NaN
    /\ roster_congress = NaN
    /\ ses_pc = "idle"
    /\ pdf_df = <<>>
    /\ cleaned_text = <<>>
    /\ matches = <<>>
    /\ data = <<>>
    /\ speeches_by_congress = <<>>
    /\ seg_raised = "none"
    /\ seg_pc = "idle"
    /\ AuxIdle

SpecSmall == InitMatchSmall /\ [][NextMatch]_vars

(***************************************************************************)
(* Claims about the speaker-resolution cascade (specification Spec).       *)
(***************************************************************************)
\* the positions of match_speakers after the exact tiers have run
AfterExactTiers == {"fuzzy_remaining", "fuzzy_long_name", "cleanup", "finalize",
                    "done", "raised"}
\* the positions after the approximate tier has run on df_remaining
AfterFuzzyRemaining == {"fuzzy_long_name", "cleanup", "finalize", "done", "raised"}
\* the positions after the approximate tier has run on df_firstname_lastname_only
AfterFuzzyLongName == {"cleanup", "finalize", "done", "raised"}

ContainsLongName(matched_by) == matched_by \in {"long_name", "long_name, state"}

\* the roster has two or more rows of the K-tuple of the speech
AmbiguousKey(row, match_columns) ==
    Cardinality({j \in 1..Len(df_politician_info) :
        Key(df_politician_info[j], match_columns) = Key(row, match_columns)}) >= 2

\* the exact tiers: the bucket, the key columns and the place of the result
ExactTiers ==
    << [bucket |-> df_all_three, K |-> <<"state", "first_name", "last_name">>],
       [bucket |-> df_state_lastname_only, K |-> <<"state", "last_name">>],
       [bucket |-> df_lastname_only, K |-> <<"last_name">>] >>

\* the exact tiers alone keep the first half of C1: a speech whose K-tuple is on
\* two or more roster rows is on no row of the exact tier for K
ExactTierExcludesAmbiguousKeys ==
    pc \in AfterExactTiers =>
        \A t \in 1..3 : \A i \in 1..Len(ExactTiers[t].bucket) :
            AmbiguousKey(ExactTiers[t].bucket[i], ExactTiers[t].K) =>
                \A k \in 1..Len(datasets[t]) :
                    datasets[t][k].speech_id # ExactTiers[t].bucket[i].speech_id

\* C1: a speech whose K-tuple occurs on two or more roster rows is on no row
\* of the exact tier for K, and every row of the final output that carries
\* such a speech has a matched_by value containing "long_name".
C1_AmbiguousKeyOnlyByLongName ==
    /\ ExactTierExcludesAmbiguousKeys
    /\ pc = "done" =>
          \A t \in 1..3 : \A i \in 1..Len(ExactTiers[t].bucket) :
              AmbiguousKey(ExactTiers[t].bucket[i], ExactTiers[t].K) =>
                  \A k \in 1..Len(combined_df) :
                      combined_df[k].speech_id = ExactTiers[t].bucket[i].speech_id
                          => ContainsLongName(combined_df[k].matched_by)

\* C2: in the table match_speakers returns, every speech_id is on at most one row.
C2_OneRowPerSpeech ==
    pc = "done" =>
        \A i, j \in 1..Len(combined_df) :
            combined_df[i].speech_id = combined_df[j].speech_id => i = j

SpeechIds(df) == {df[i].speech_id : i \in 1..Len(df)}

\* C3: the approximate tier for the all-three bucket is given exactly the
\* speeches of the bucket that the exact tier did not match.
C3_RemainingIsUnmatched ==
    pc \in AfterFuzzyRemaining =>
        SpeechIds(df_remaining) = SpeechIds(df_all_three) \ SpeechIds(df_matched_all_3)

\* C4: every row of the final output has similarity_score 100 when matched_by
\* does not contain "long_name", and otherwise a score that is present, at
\* least the threshold and below 100.
C4_ScoreRange ==
    pc = "done" =>
        \A k \in 1..Len(combined_df) :
            IF ContainsLongName(combined_df[k].matched_by)
            THEN /\ combined_df[k].similarity_score # NaN
                 /\ combined_df[k].similarity_score >= threshold
                 /\ combined_df[k].similarity_score < 100
            ELSE combined_df[k].similarity_score = 100

\* the speech has no roster candidate after the state filter, or its best
\* candidate scores below the threshold
Rejected(row) == BestMatch(row, df_politician_info) = <<>>

\* C5: a speech the approximate tier rejects is on no row of the tier's result
\* nor of the final output.
C5_RejectedSpeechDropped ==
    /\ pc \in AfterFuzzyRemaining =>
          \A i \in 1..Len(df_remaining) : Rejected(df_remaining[i]) =>
              /\ df_remaining[i].speech_id \notin SpeechIds(datasets[4])
              /\ pc = "done" =>
                    \A k \in 1..Len(combined_df) :
                        combined_df[k].speech_id = df_remaining[i].speech_id
                            => ~ContainsLongName(combined_df[k].matched_by)
                               /\ combined_df[k].matched_by # NA
    /\ pc \in AfterFuzzyLongName =>
          \A i \in 1..Len(df_firstname_lastname_only) :
              Rejected(df_firstname_lastname_only[i]) =>
                  /\ df_firstname_lastname_only[i].speech_id \notin SpeechIds(df_long_name)
                  /\ pc = "done" => df_firstname_lastname_only[i].speech_id
                                        \notin SpeechIds(combined_df)

\* the speech of a table by its speech_id
SpeechOf(df, id) == CHOOSE r \in Range(df) : r.speech_id = id

\* the row carries the best candidate of its own speech, with its score
OwnBestMatch(row, df) ==
    LET best == BestMatch(SpeechOf(df, row.speech_id), df_politician_info)
    IN /\ best # <<>>
       /\ row.leg = best[1].leg
       /\ row.similarity_score = best[1].similarity_score

\* C6: on every row of the approximate tier that carries a legislator, the
\* legislator and the score are those of the highest-scoring candidate of that
\* row's own speech.
C6_BestCandidateOfOwnSpeech ==
    /\ pc \in AfterFuzzyRemaining =>
          \A k \in 1..Len(datasets[4]) :
              datasets[4][k].leg # NaN => OwnBestMatch(datasets[4][k], df_remaining)
    /\ pc \in AfterFuzzyLongName =>
          \A k \in 1..Len(df_long_name) :
              df_long_name[k].leg # NaN =>
                  OwnBestMatch(df_long_name[k], df_firstname_lastname_only)

\* C7: match_speakers returns a table without raising, whatever the
\* distribution of the speeches over the buckets.
C7_NeverRaises == raised = "none" /\ pc # "raised"

(***************************************************************************)
(* Session numbering: assign_congress_number of the extractor and          *)
(* get_congress_number of the roster construction.  A timestamp is a       *)
(* calendar day <<year, month, day>>; the boundaries are at midnight.      *)
(***************************************************************************)
\* the number of years of timestamps the model covers, from FirstYear on
YearSpan == 13
FirstYear == 2026 - YearSpan

LeapYear(y) == (y % 4 = 0 /\ y % 100 # 0) \/ y % 400 = 0

DaysInMonth(y, m) ==
    IF m = 2 THEN (IF LeapYear(y) THEN 29 ELSE 28)
    ELSE IF m \in {4, 6, 9, 11} THEN 30 ELSE 31

Timestamps ==
    {<<y, m, d>> : y \in FirstYear..(FirstYear + YearSpan), m \in 1..12, d \in 1..31}

ValidTimestamps == {t \in Timestamps : t[3] <= DaysInMonth(t[1], t[2])}

\* a < b on timestamps
Before(a, b) ==
    \/ a[1] < b[1]
    \/ a[1] = b[1] /\ a[2] < b[2]
    \/ a[1] = b[1] /\ a[2] = b[2] /\ a[3] < b[3]

\* assign_congress_number
AssignCongressNumberOf(t) ==
    IF t = NaT THEN NaN
    ELSE IF Before(t, <<2017, 1, 3>>) THEN 114
    ELSE IF Before(t, <<2019, 1, 3>>) THEN 115
    ELSE IF Before(t, <<2021, 1, 3>>) THEN 116
    ELSE IF Before(t, <<2023, 1, 3>>) THEN 117
    ELSE 118

\* get_congress_number without the January 3 rule for end dates
GetCongressNumberSameForEnd(d, is_start_date) ==
    LET year == IF d[2] = 1 /\ d[3] < 3 THEN d[1] - 1 ELSE d[1]
    IN ((year - 1789) \div 2) + 1

\* get_congress_number
GetCongressNumber(d, is_start_date) ==
    LET year == IF d[2] = 1 /\ (d[3] < 3 \/ (d[3] = 3 /\ ~is_start_date))
                THEN d[1] - 1 ELSE d[1]
    IN ((year - 1789) \div 2) + 1

InitSession ==
    /\ date \in ValidTimestamps \cup {NaT}
    /\ congress_number = NaN
    /\ roster_congress = NaN
    /\ ses_pc = "start"
    /\ in_speeches = <<>>
    /\ in_roster = <<>>
    /\ df_speeches = <<>>
    /\ df_politician_info = <<>>
    /\ df_all_three = <<>>
    /\ df_state_lastname_only = <<>>
    /\ df_lastname_only = <<>>
    /\ df_firstname_lastname_only = <<>>
    /\ df_matched_all_3 = <<>>
    /\ df_remaining = <<>>
    /\ df_long_name = <<>>
    /\ datasets = <<>>
    /\ combined_df = <<>>
    /\ raised = "none"
    /\ pc = "idle"
    /\ pdf_df = <<>>
    /\ cleaned_text = <<>>
    /\ matches = <<>>
    /\ data = <<>>
    /\ speeches_by_congress = <<>>
    /\ seg_raised = "none"
    /\ seg_pc = "idle"
    /\ AuxIdle

\* the extractor assigns the session of the timestamp
AssignCongressNumber ==
    /\ ses_pc = "start"
    /\ congress_number' = AssignCongressNumberOf(date)
    /\ ses_pc' = IF date = NaT THEN "done" ELSE "assigned"
    /\ UNCHANGED <<date, roster_congress>>
    /\ UNCHANGED <<matchVars, segVars, auxVars>>

\* the roster construction numbers the same day as a term start
RosterCongressNumber ==
    /\ ses_pc = "assigned"
    /\ roster_congress' = GetCongressNumber(date, TRUE)
    /\ ses_pc' = "done"
    /\ UNCHANGED <<date, congress_number>>
    /\ UNCHANGED <<matchVars, segVars, auxVars>>

NextSession == AssignCongressNumber \/ RosterCongressNumber

SpecSession == InitSession /\ [][NextSession]_vars

\* January 3 of the first (odd) year of session n
SessionStart(n) == <<1789 + 2 * (n - 1), 1, 3>>

\* the session whose interval [start, next start) holds the timestamp
InSession(t, n) == ~Before(t, SessionStart(n)) /\ Before(t, SessionStart(n + 1))

\* C10: for every timestamp that is not missing the session assigner returns
\* the session whose interval [January 3 of its first year, January 3 two
\* years later) holds the timestamp, the number that
\* get_congress_number(t, is_start_date=True) gives; for a missing timestamp it
\* returns nothing.
C10_SessionOfEveryTimestamp ==
    ses_pc = "done" =>
        IF date = NaT THEN congress_number = NaN
        ELSE /\ InSession(date, congress_number)
             /\ congress_number = roster_congress

\* inside the hardcoded table, from 2015-01-03 to 2025-01-02, the assigner, the
\* interval rule and get_congress_number agree
SessionTableAgreesInside ==
    (ses_pc = "done" /\ date # NaT
        /\ ~Before(date, <<2015, 1, 3>>) /\ Before(date, <<2025, 1, 3>>)) =>
            /\ InSession(date, congress_number)
            /\ congress_number = roster_congress

(***************************************************************************)
(* CongressionalSpeechExtractor.  A text is the sequence of its words (the *)
(* maximal runs of characters that are not whitespace, a full stop that    *)
(* ends a name or a state being a word of its own); Gap is one more space  *)
(* between two words.  The regular expression is matched at the starts of  *)
(* words.                                                                  *)
(***************************************************************************)
\* the largest number of chunks of text in the document table
MaxChunks == 3
\* the largest number of documents in the document table
MaxDocs == 2

\* the second of two adjacent spaces
Gap == ""
\* the paragraph-break marker "\nf \n" of the raw text
BreakMarker == "\\nf \\n"
SpeakerBreak == "<SPEAKER_BREAK>"

\* the words _clean_text removes: \b(CONGRESSIONAL|RECORD|HOUSE|DAILY|DIGEST)\b
Boilerplate == {"CONGRESSIONAL", "RECORD", "HOUSE", "DAILY", "DIGEST"}

\* the chunks a raw document text is made of
Chunks ==
    << <<"Mr.", "SMITH", "Mr.", "Speaker,">>,
       <<"Ms.", "JACKSON", "LEE", "of", "Texas", ".", "Madam", "Speaker,">>,
       <<"yield">>,
       <<BreakMarker>>,
       <<"The", "SPEAKER", "pro", "tempore">>,
       <<"Mr.", "Speaker,", "I", "reserve", "the", "balance", "of", "my", "time.">>,
       <<"GENERAL", "LEAVE", "HOUSE", "AND", "OTHER">> >>

\* the issue dates of the documents of the model
IssueDates == {<<2016, 12, 30>>, <<2017, 1, 3>>}

\* [A-Z]+ matches the whole word
IsCaps(t) == t \in {"SMITH", "JACKSON", "LEE", "SPEAKER", "I", "GENERAL", "LEAVE",
                    "AND", "OTHER"} \cup Boilerplate

\* \w+ matches the whole word
IsWord(t) == IsCaps(t) \/ t \in {"of", "Texas", "Ohio", "Madam", "The", "pro", "tempore",
                                  "yield", "reserve", "the", "balance", "my", "Miss"}

\* [A-Z]+ matches the start of the word
StartsUpper(t) == IsCaps(t) \/ t \in {"Mr.", "Ms.", "Mrs.", "Miss", "Madam", "Speaker,",
                                       "The", "Texas", "Ohio"}

\* (Mr\.|Ms\.|Mrs\.|Miss)
IsPrefix(t) == t \in {"Mr.", "Ms.", "Mrs.", "Miss"}

\* the word at position p, Gap past the end of the text
At(text, p) == IF p \in 1..Len(text) THEN text[p] ELSE Gap

\* the words at positions a..b, Gap past the end of the text
Slice(text, a, b) == [i \in 1..(b - a + 1) |-> At(text, a + i - 1)]

\* \s* and \s+ after a word: the next position that is not a Gap
RECURSIVE SkipGaps(_, _)
SkipGaps(text, p) ==
    IF p <= Len(text) /\ text[p] = Gap THEN SkipGaps(text, p + 1) ELSE p

\* text.strip()
RECURSIVE Strip(_)
Strip(text) ==
    IF text = <<>> THEN <<>>
    ELSE IF Head(text) = Gap THEN Strip(Tail(text))
    ELSE IF text[Len(text)] = Gap THEN Strip(SubSeq(text, 1, Len(text) - 1))
    ELSE text

\* the word before the hyphen of a word that ends a line broken by a hyphen,
\* "" for any other word
HyphenStem(t) ==
    CASE t = "inter-"      -> "inter"
      [] t = "na-"         -> "na"
      [] t = "interna-"    -> "interna"
      [] t = "nainter-"    -> "nainter"
      [] t = "interinter-" -> "interinter"
      [] t = "nana-"       -> "nana"
      [] OTHER -> ""

\* the word starts with a character of \w
StartsWithWordChar(t) == t \notin {Gap, ".", SpeakerBreak, BreakMarker}

\* rule (\w+)-\s+(\w+) -> \1\2, matches taken left to right without overlap
RECURSIVE JoinBrokenWords(_)
JoinBrokenWords(text) ==
    IF Len(text) < 2 THEN text
    ELSE IF HyphenStem(text[1]) # "" /\ StartsWithWordChar(text[2])
    THEN <<HyphenStem(text[1]) \o text[2]>> \o JoinBrokenWords(Tail(Tail(text)))
    ELSE <<Head(text)>> \o JoinBrokenWords(Tail(text))

\* rule \s+ -> " ": no two spaces are left side by side
CollapseWhitespace(text) == SelectSeq(text, LAMBDA t : t # Gap)

\* _clean_text: the marker becomes the break token, whitespace is collapsed,
\* hyphen-broken words are joined, a removed word leaves its two spaces side by
\* side, the result is stripped (the texts of the model hold no printer stamp)
CleanText(raw) ==
    LET marked    == [i \in 1..Len(raw) |->
                         IF raw[i] = BreakMarker THEN SpeakerBreak ELSE raw[i]]
        joined    == JoinBrokenWords(CollapseWhitespace(marked))
    IN Strip([i \in 1..Len(joined) |->
                 IF joined[i] \in Boilerplate THEN Gap ELSE joined[i]])

\* ([A-Z]+(?:\s[A-Z]+)*) from position n on: the position of its last word
RECURSIVE NamesEnd(_, _)
NamesEnd(text, n) ==
    IF IsCaps(At(text, n + 1)) THEN NamesEnd(text, n + 1) ELSE n

\* \.?\s*(?:Mr\.|Madam)\s*Speaker, from position r on: the position after it,
\* 0 when it does not match; the closer's copy of the pattern ends at Speaker
\* without the comma
Salutation(text, r, comma) ==
    LET r1 == IF At(text, r) = "." THEN r + 1 ELSE r
        r2 == SkipGaps(text, r1)
        r3 == SkipGaps(text, r2 + 1)
    IN IF /\ At(text, r2) \in {"Mr.", "Madam"}
          /\ At(text, r3) = "Speaker," \/ (~comma /\ At(text, r3) = "Speaker")
       THEN r3 + 1 ELSE 0

\* [\w ]* from position a on: the position after the longest run of words
\* and spaces
RECURSIVE WordRunEnd(_, _)
WordRunEnd(text, a) ==
    IF a <= Len(text) /\ (IsWord(text[a]) \/ text[a] = Gap)
    THEN WordRunEnd(text, a + 1) ELSE a

\* the opener at position p: \b(prefix)\s+(names)\s*(of [\w ]*)?\.?\s*
\* (?:Mr\.|Madam)\s*Speaker,\s*   The greedy [\w ]* gives back words until the
\* rest of the opener matches.
Opener(text, p, comma) ==
    LET n1  == SkipGaps(text, p + 1)
        n2  == NamesEnd(text, n1)
        a   == SkipGaps(text, n2 + 1)
        ofs == {r \in (a + 1)..WordRunEnd(text, a + 1) : Salutation(text, r, comma) # 0}
        r   == CHOOSE x \in ofs : \A y \in ofs : y <= x
    IN IF ~(IsPrefix(At(text, p)) /\ IsCaps(At(text, n1)))
       THEN [ok |-> FALSE]
       ELSE IF At(text, a) = "of" /\ a < Len(text) /\ ofs # {}
       THEN [ok |-> TRUE,
             speaker |-> Strip(Slice(text, n1, n2) \o Slice(text, a, r - 1)),
             end |-> SkipGaps(text, Salutation(text, r, comma))]
       ELSE IF Salutation(text, a, comma) # 0
       THEN [ok |-> TRUE,
             speaker |-> Slice(text, n1, n2),
             end |-> SkipGaps(text, Salutation(text, a, comma))]
       ELSE [ok |-> FALSE]

\* \bThe SPEAKER pro tempore\b
ProTempore(text, q) ==
    Slice(text, q, q + 3) = <<"The", "SPEAKER", "pro", "tempore">>

\* (prefix)\s*Speaker,\s*I reserve the balance of my time
ReserveBalance(text, q) ==
    LET s1 == SkipGaps(text, q + 1)
        i  == SkipGaps(text, s1 + 1)
    IN /\ IsPrefix(At(text, q))
       /\ At(text, s1) = "Speaker,"
       /\ Slice(text, i, i + 5) = <<"I", "reserve", "the", "balance", "of", "my">>
       /\ At(text, i + 6) \in {"time", "time."}

\* the position after k more words, each [A-Z]+ and followed by \s+
RECURSIVE CapsRun(_, _, _)
CapsRun(text, q, k) ==
    IF k = 0 THEN q
    ELSE IF IsCaps(At(text, q)) THEN CapsRun(text, SkipGaps(text, q + 1), k - 1)
    ELSE 0

\* [A-Z]+\s+[A-Z]+\s+[A-Z]+\s+[A-Z]+\s+[A-Z]+(?:\s+[A-Z]+)*: four words of
\* capitals and the start of a fifth
Heading(text, q) ==
    CapsRun(text, q, 4) # 0 /\ StartsUpper(At(text, CapsRun(text, q, 4)))

\* the lookahead without its <SPEAKER_BREAK> alternative
CloserWithoutBreak(text, q) ==
    \/ ProTempore(text, q)
    \/ ReserveBalance(text, q)
    \/ Opener(text, q, FALSE).ok
    \/ q = Len(text) + 1
    \/ Heading(text, q)

\* the lookahead that ends a speech body, at position q
Closer(text, q) ==
    \/ ProTempore(text, q)
    \/ ReserveBalance(text, q)
    \/ Opener(text, q, FALSE).ok
    \/ At(text, q) = SpeakerBreak
    \/ q = Len(text) + 1
    \/ Heading(text, q)

\* [\s\S]*? before the lookahead: the first position from start on where a
\* closer matches
BodyEnd(text, start) ==
    CHOOSE q \in start..(Len(text) + 1) :
        Closer(text, q) /\ \A x \in start..(q - 1) : ~Closer(text, x)

\* re.findall(pattern, text) from position pos on: the matches, left to right,
\* each starting where the one before ended or later
RECURSIVE FindAll(_, _)
FindAll(text, pos) ==
    LET starts == {p \in pos..Len(text) : Opener(text, p, TRUE).ok}
        p      == CHOOSE x \in starts : \A y \in starts : x <= y
        o      == Opener(text, p, TRUE)
        q      == BodyEnd(text, o.end)
    IN IF starts = {} THEN <<>>
       ELSE << [opener |-> p, speaker |-> o.speaker,
                body_start |-> o.end, body_end |-> q,
                speech |-> Strip(Slice(text, o.end, q - 1))] >>
            \o FindAll(text, q)

\* the documents of a table: the chunks cs cut at the positions cuts
Content(cs, cuts, i) ==
    LET from == IF i = 1 THEN 1 ELSE cuts[i - 1] + 1
        to   == IF i = Len(cuts) + 1 THEN Len(cs) ELSE cuts[i]
    IN Flatten([k \in 1..(to - from + 1) |-> Chunks[cs[from + k - 1]]])

InitSegment ==
    /\ \E n \in 1..MaxDocs, len \in 0..MaxChunks :
         \E cs \in [1..len -> 1..Len(Chunks)], cuts \in [1..(n - 1) -> 0..len],
            dates \in [1..n -> IssueDates] :
            /\ \A i \in 1..(n - 2) : cuts[i] <= cuts[i + 1]
            /\ pdf_df = [i \in 1..n |->
                            [content |-> Content(cs, cuts, i), issueDate |-> dates[i]]]
    /\ cleaned_text = <<>>
    /\ matches = <<>>
    /\ data = <<>>
    /\ speeches_by_congress = <<>>
    /\ seg_raised = "none"
    /\ seg_pc = "rows"
    /\ date = NaT
    /\ congress_number = NaN
    /\ roster_congress = NaN
    /\ ses_pc = "idle"
    /\ in_speeches = <<>>
    /\ in_roster = <<>>
    /\ df_speeches = <<>>
    /\ df_politician_info = <<>>
    /\ df_all_three = <<>>
    /\ df_state_lastname_only = <<>>
    /\ df_lastname_only = <<>>
    /\ df_firstname_lastname_only = <<>>
    /\ df_matched_all_3 = <<>>
    /\ df_remaining = <<>>
    /\ df_long_name = <<>>
    /\ datasets = <<>>
    /\ combined_df = <<>>
    /\ raised = "none"
    /\ pc = "idle"
    /\ AuxIdle

\* lines 211-225: every row of pdf_df is cleaned and segmented, and its
\* speeches are appended to data
RECURSIVE CleanedTexts(_)
CleanedTexts(df) ==
    IF df = <<>> THEN <<>>
    ELSE <<CleanText(Head(df).content)>> \o CleanedTexts(Tail(df))

RECURSIVE Matches(_)
Matches(texts) ==
    IF texts = <<>> THEN <<>>
    ELSE <<FindAll(Head(texts), 1)>> \o Matches(Tail(texts))

RECURSIVE Records(_, _)
Records(found, issueDate) ==
    IF found = <<>> THEN <<>>
    ELSE <<[issueDate |-> issueDate,
            speaker   |-> Head(found).speaker,
            speech    |-> Head(found).speech]>> \o Records(Tail(found), issueDate)

RECURSIVE Data(_, _)
Data(df, found) ==
    IF df = <<>> THEN <<>>
    ELSE Records(Head(found), Head(df).issueDate) \o Data(Tail(df), Tail(found))

\* extract_speeches, lines 210-225: the loop over the rows of pdf_df
ExtractRows ==
    /\ seg_pc = "rows"
    /\ cleaned_text' = CleanedTexts(pdf_df)
    /\ matches' = Matches(cleaned_text')
    /\ data' = Data(pdf_df, matches')
    /\ seg_pc' = "assign"
    /\ UNCHANGED <<pdf_df, speeches_by_congress, seg_raised>>
    /\ UNCHANGED <<matchVars, sesVars, auxVars>>

\* lines 227-228 with 262: pd.DataFrame([]) has no issueDate column
AssignCongressNumbersKeyError ==
    /\ seg_pc = "assign"
    /\ data = <<>>
    /\ seg_raised' = "KeyError"
    /\ seg_pc' = "raised"
    /\ UNCHANGED <<pdf_df, cleaned_text, matches, data, speeches_by_congress>>
    /\ UNCHANGED <<matchVars, sesVars, auxVars>>

\* lines 227-230 with 257-289: the speeches are grouped by session
AssignCongressNumbers ==
    /\ seg_pc = "assign"
    /\ data # <<>>
    /\ LET df == [k \in 1..Len(data) |->
                    [idx |-> k - 1, speaker |-> data[k].speaker,
                     speech |-> data[k].speech, issueDate |-> data[k].issueDate,
                     congress_number |-> AssignCongressNumberOf(data[k].issueDate)]]
           keys == {df[k].congress_number : k \in 1..Len(df)} \ {NaN}
       IN speeches_by_congress' =
              [c \in keys |-> SelectSeq(df, LAMBDA r : r.congress_number = c)]
    /\ seg_pc' = "done"
    /\ UNCHANGED <<pdf_df, cleaned_text, matches, data, seg_raised>>
    /\ UNCHANGED <<matchVars, sesVars, auxVars>>

NextSegment == ExtractRows \/ AssignCongressNumbersKeyError \/ AssignCongressNumbers

SpecSegment == InitSegment /\ [][NextSegment]_vars

\* C8: no speech body the segmenter emits holds the <SPEAKER_BREAK> token: a
\* body ends at or before the first break token after its opener.
C8_BreakIsHardBoundary ==
    /\ \A i \in 1..Len(matches) : \A k \in 1..Len(matches[i]) :
          /\ \A b \in matches[i][k].opener..Len(cleaned_text[i]) :
                cleaned_text[i][b] = SpeakerBreak => matches[i][k].body_end <= b
          /\ SpeakerBreak \notin Range(matches[i][k].speech)
    /\ \A j \in 1..Len(data) : SpeakerBreak \notin Range(data[j].speech)

\* a speech was cut at a break token, and the text goes on after the token
C8_Witness ==
    \E i \in 1..Len(matches) : \E k \in 1..Len(matches[i]) :
        /\ matches[i][k].body_end < Len(cleaned_text[i])
        /\ cleaned_text[i][matches[i][k].body_end] = SpeakerBreak
        /\ ~Opener(cleaned_text[i], matches[i][k].body_end + 1, FALSE).ok

\* C9: when no opener is found in any document, extract_speeches completes
\* with an empty result and does not raise.
C9_NoOpenerNoFailure ==
    (seg_pc \notin {"rows", "assign"} /\ data = <<>>) =>
        seg_raised = "none" /\ seg_pc = "done" /\ speeches_by_congress = <<>>

(***************************************************************************)
(* _clean_text applied to its own result (specification SpecClean).        *)
(***************************************************************************)
\* the largest number of words of a raw text
MaxWords == 3

\* the words of a raw text: a plain word, a word _clean_text removes, words
\* that end a line broken by a hyphen, one more space, the paragraph marker
RawWords == {"the", "HOUSE", "inter-", "na-", "tional", Gap, BreakMarker}

InitClean ==
    /\ \E len \in 0..MaxWords : raw_text \in [1..len -> RawWords]
    /\ once = <<>>
    /\ twice = <<>>
    /\ clean_pc = "raw"
    /\ ServedIdle
    /\ RosterIdle
    /\ date = NaT
    /\ congress_number = NaN
    /\ roster_congress = NaN
    /\ ses_pc = "idle"
    /\ pdf_df = <<>>
    /\ cleaned_text = <<>>
    /\ matches = <<>>
    /\ data = <<>>
    /\ speeches_by_congress = <<>>
    /\ seg_raised = "none"
    /\ seg_pc = "idle"
    /\ in_speeches = <<>>
    /\ in_roster = <<>>
    /\ df_speeches = <<>>
    /\ df_politician_info = <<>>
    /\ df_all_three = <<>>
    /\ df_state_lastname_only = <<>>
    /\ df_lastname_only = <<>>
    /\ df_firstname_lastname_only = <<>>
    /\ df_matched_all_3 = <<>>
    /\ df_remaining = <<>>
    /\ df_long_name = <<>>
    /\ datasets = <<>>
    /\ combined_df = <<>>
    /\ raised = "none"
    /\ pc = "idle"

\* _clean_text(text)
Normalize ==
    /\ clean_pc = "raw"
    /\ once' = CleanText(raw_text)
    /\ clean_pc' = "once"
    /\ UNCHANGED <<raw_text, twice>>
    /\ UNCHANGED <<matchVars, sesVars, segVars, servedVars, rosterVars>>

\* _clean_text of the result
NormalizeAgain ==
    /\ clean_pc = "once"
    /\ twice' = CleanText(once)
    /\ clean_pc' = "twice"
    /\ UNCHANGED <<raw_text, once>>
    /\ UNCHANGED <<matchVars, sesVars, segVars, servedVars, rosterVars>>

NextClean == Normalize \/ NormalizeAgain

SpecClean == InitClean /\ [][NextClean]_vars

\* C13: for every raw text without the paragraph-break marker,
\* normalize(normalize(x)) = normalize(x), also when the text holds removable
\* words or chains of hyphen-broken words.
C13_NormalizeIdempotent ==
    (clean_pc = "twice" /\ BreakMarker \notin Range(raw_text)) => twice = once

\* on the texts that hold no removable word and no hyphen-broken word, with or
\* without the marker, the second application changes nothing
NormalizeIdempotentOnPlainText ==
    (clean_pc = "twice"
        /\ Range(raw_text) \cap (Boilerplate \cup {"inter-", "na-"}) = {})
            => twice = once

(***************************************************************************)
(* calculate_congresses_served (specification SpecServed).                 *)
(***************************************************************************)
\* the days of a year the term dates are drawn from: the days around January 3,
\* a day in the middle of the year and the last day of the year
TermDays == {<<1, 1>>, <<1, 2>>, <<1, 3>>, <<1, 4>>, <<6, 15>>, <<12, 31>>}

TermDates ==
    {<<y, md[1], md[2]>> : y \in FirstYear..(FirstYear + YearSpan), md \in TermDays}

\* calculate_congresses_served
CalculateCongressesServed(start, end) ==
    LET start_congress == GetCongressNumber(start, TRUE)
        end_congress   == GetCongressNumber(end, FALSE)
    IN [i \in 1..(end_congress - start_congress + 1) |-> start_congress + i - 1]

InitServed ==
    /\ start_date \in TermDates
    /\ end_date \in TermDates
    /\ congresses_served = <<>>
    /\ served_pc = "start"
    /\ CleanIdle
    /\ RosterIdle
    /\ date = NaT
    /\ congress_number = NaN
    /\ roster_congress = NaN
    /\ ses_pc = "idle"
    /\ pdf_df = <<>>
    /\ cleaned_text = <<>>
    /\ matches = <<>>
    /\ data = <<>>
    /\ speeches_by_congress = <<>>
    /\ seg_raised = "none"
    /\ seg_pc = "idle"
    /\ in_speeches = <<>>
    /\ in_roster = <<>>
    /\ df_speeches = <<>>
    /\ df_politician_info = <<>>
    /\ df_all_three = <<>>
    /\ df_state_lastname_only = <<>>
    /\ df_lastname_only = <<>>
    /\ df_firstname_lastname_only = <<>>
    /\ df_matched_all_3 = <<>>
    /\ df_remaining = <<>>
    /\ df_long_name = <<>>
    /\ datasets = <<>>
    /\ combined_df = <<>>
    /\ raised = "none"
    /\ pc = "idle"

CongressesServed ==
    /\ served_pc = "start"
    /\ congresses_served' = CalculateCongressesServed(start_date, end_date)
    /\ served_pc' = "done"
    /\ UNCHANGED <<start_date, end_date>>
    /\ UNCHANGED <<matchVars, sesVars, segVars, cleanVars, rosterVars>>

NextServed == CongressesServed

SpecServed == InitServed /\ [][NextServed]_vars

\* the year of a date, one less when the date is January 1 or 2, or is
\* January 3 and is the end date
EffectiveYear(d, is_end) ==
    IF d[2] = 1 /\ (d[3] \in {1, 2} \/ (d[3] = 3 /\ is_end)) THEN d[1] - 1 ELSE d[1]

\* floor((y - 1789) / 2) + 1
SessionOfYear(y) == ((y - 1789) \div 2) + 1

\* C14: calculate_congresses_served(start, end) is the ascending list of all
\* integers from S to E, S and E being the sessions of the effective years of
\* the start and of the end date; a term that starts and ends on the same
\* January 3 of an odd year gives the empty list.
C14_CongressesServed ==
    served_pc = "done" =>
        LET S == SessionOfYear(EffectiveYear(start_date, FALSE))
            E == SessionOfYear(EffectiveYear(end_date, TRUE))
        IN /\ Len(congresses_served) = (IF E >= S THEN E - S + 1 ELSE 0)
           /\ \A i \in 1..Len(congresses_served) : congresses_served[i] = S + i - 1
           /\ (start_date = end_date /\ start_date[2] = 1 /\ start_date[3] = 3
                  /\ start_date[1] % 2 = 1) => congresses_served = <<>>

\* a term that starts and ends on the same January 3 of an odd year has been
\* numbered: the start date is in the new session, the end date in the one
\* before, and the list is empty
C14_Witness ==
    /\ served_pc = "done"
    /\ start_date = end_date
    /\ start_date[2] = 1 /\ start_date[3] = 3 /\ start_date[1] % 2 = 1
    /\ GetCongressNumber(start_date, TRUE) = GetCongressNumber(end_date, FALSE) + 1
    /\ congresses_served = <<>>

(***************************************************************************)
(* process_legislators_data (specification SpecRoster).  A legislator      *)
(* record is the list of its terms, oldest first; a row of the result      *)
(* keeps the legislator, the place of the term in that list, the dates of  *)
(* the term and its congress numbers.                                      *)
(***************************************************************************)
\* the largest number of terms of a legislator record
MaxTerms == 3
\* the largest number of legislator records of data
MaxLegislators == 2

\* the years the House terms of the model start in
TermStartYears == {2015, 2017, 2019, 2021}

\* a House term: from January 3 of an odd year to January 3 two years later
Term(y) == [start |-> <<y, 1, 3>>, end |-> <<y + 2, 1, 3>>]

\* the legislator records: one to MaxTerms terms, oldest first
LegislatorRecords ==
    { [k \in 1..Cardinality(Y) |-> Term(SortedSeq(Y)[k])] :
        Y \in { X \in SUBSET TermStartYears :
                  Cardinality(X) >= 1 /\ Cardinality(X) <= MaxTerms } }

\* terms[-2:] if len(terms) > 2 else terms, as places in terms
TermsToProcess(terms) ==
    IF Len(terms) > 2 THEN <<Len(terms) - 1, Len(terms)>>
    ELSE [k \in 1..Len(terms) |-> k]

\* the rows process_legislators_data emits for legislator l
RowsOfLegislator(records, l, target_congress_numbers) ==
    LET terms == records[l]
        row(t) == [legislator       |-> l,
                   term             |-> t,
                   start_date       |-> terms[t].start,
                   end_date         |-> terms[t].end,
                   congress_numbers |-> CalculateCongressesServed(terms[t].start,
                                                                  terms[t].end)]
        kept == SelectSeq(TermsToProcess(terms), LAMBDA t :
                    target_congress_numbers = {}
                    \/ Range(row(t).congress_numbers) \cap target_congress_numbers # {})
    IN [k \in 1..Len(kept) |-> row(kept[k])]

\* process_legislators_data
ProcessLegislatorsData(records, target_congress_numbers) ==
    Flatten([l \in 1..Len(records) |->
                RowsOfLegislator(records, l, target_congress_numbers)])

InitRoster ==
    /\ \E n \in 1..MaxLegislators : legislators \in [1..n -> LegislatorRecords]
    /\ target_congress \in Sessions
    /\ result = <<>>
    /\ roster_pc = "start"
    /\ CleanIdle
    /\ ServedIdle
    /\ date = NaT
    /\ congress_number = NaN
    /\ roster_congress = NaN
    /\ ses_pc = "idle"
    /\ pdf_df = <<>>
    /\ cleaned_text = <<>>
    /\ matches = <<>>
    /\ data = <<>>
    /\ speeches_by_congress = <<>>
    /\ seg_raised = "none"
    /\ seg_pc = "idle"
    /\ in_speeches = <<>>
    /\ in_roster = <<>>
    /\ df_speeches = <<>>
    /\ df_politician_info = <<>>
    /\ df_all_three = <<>>
    /\ df_state_lastname_only = <<>>
    /\ df_lastname_only = <<>>
    /\ df_firstname_lastname_only = <<>>
    /\ df_matched_all_3 = <<>>
    /\ df_remaining = <<>>
    /\ df_long_name = <<>>
    /\ datasets = <<>>
    /\ combined_df = <<>>
    /\ raised = "none"
    /\ pc = "idle"

ProcessLegislators ==
    /\ roster_pc = "start"
    /\ result' = ProcessLegislatorsData(legislators, {target_congress})
    /\ roster_pc' = "done"
    /\ UNCHANGED <<legislators, target_congress>>
    /\ UNCHANGED <<matchVars, sesVars, segVars, cleanVars, servedVars>>

NextRoster == ProcessLegislators

SpecRoster == InitRoster /\ [][NextRoster]_vars

\* the term at place t of legislator l was served in session c
ServedIn(l, t, c) ==
    c \in Range(CalculateCongressesServed(legislators[l][t].start, legislators[l][t].end))

\* the rows of the result for the term at place t of legislator l
RowsFor(l, t) == {k \in 1..Len(result) : result[k].legislator = l /\ result[k].term = t}

\* C19: process_legislators_data(data, [c]) emits one row for every
\* (legislator, term) pair whose term's congress numbers include c, whatever
\* the number of terms of the legislator.
C19_RowForEveryTermOfSession ==
    roster_pc = "done" =>
        \A l \in 1..Len(legislators) : \A t \in 1..Len(legislators[l]) :
            ServedIn(l, t, target_congress) => Cardinality(RowsFor(l, t)) = 1

\* for the legislators of at most two terms the roster of the session is
\* complete, and no roster holds a row of a term that was not served in it
RosterCompleteUpToTwoTerms ==
    roster_pc = "done" =>
        /\ \A l \in 1..Len(legislators) : \A t \in 1..Len(legislators[l]) :
              (Len(legislators[l]) <= 2 /\ ServedIn(l, t, target_congress))
                  => Cardinality(RowsFor(l, t)) = 1
        /\ \A k \in 1..Len(result) :
              ServedIn(result[k].legislator, result[k].term, target_congress)

(***************************************************************************)
(* Claims that follow a fragment from the segmenter through the matcher.   *)
(***************************************************************************)
\* the text of scenario A, in words
ScenarioAText ==
    <<"Mr.", "SMITH", "of", "Ohio", ".", "Mr.", "Speaker,", "I", "yield.">>

\* the records the segmenter emits for the text of scenario A
ScenarioARecords == FindAll(CleanText(ScenarioAText), 1)

\* the speech table holds the one speech of scenario A and the roster exactly
\* one Ohio legislator whose last name is Smith
ScenarioA ==
    /\ Len(ScenarioARecords) = 1
    /\ Len(in_speeches) = 1
    /\ in_speeches[1].speaker = ScenarioARecords[1].speaker
    /\ Cardinality({j \in 1..Len(in_roster) :
          in_roster[j].state = "ohio" /\ in_roster[j].last_name = "Smith"}) = 1

\* the Ohio legislator named Smith of the roster of scenario A
ScenarioALegislator ==
    CHOOSE j \in 1..Len(in_roster) :
        in_roster[j].state = "ohio" /\ in_roster[j].last_name = "Smith"

\* C11: in scenario A match_speakers returns exactly one row, attached to the
\* Ohio legislator named Smith, with matched_by "state, last_name" and
\* similarity_score 100.
C11_ScenarioAEndToEnd ==
    ScenarioA =>
        /\ pc # "raised"
        /\ pc = "done" =>
              /\ Len(combined_df) = 1
              /\ combined_df[1].leg = in_roster[ScenarioALegislator].idx
              /\ combined_df[1].matched_by = "state, last_name"
              /\ combined_df[1].similarity_score = 100

\* short of the failure of the assertion of lines 72-73, the exact tier on
\* (state, last_name) holds the row of scenario A
ScenarioAExactTierRow ==
    (ScenarioA /\ pc \in AfterExactTiers) =>
        /\ Len(datasets[2]) = 1
        /\ datasets[2][1].leg = in_roster[ScenarioALegislator].idx
        /\ datasets[2][1].matched_by = "state, last_name"
        /\ datasets[2][1].similarity_score = 100

\* the speaker fragment the segmenter emits for "Ms. JACKSON LEE of Texas."
ScenarioCFragment == <<"JACKSON", "LEE", "of", "Texas">>

\* the speeches of scenario C: the fragment, in session 118, whose exception
\* list holds "jackson lee"
ScenarioCSpeeches ==
    {i \in 1..Len(in_speeches) :
        /\ in_speeches[i].speaker = ScenarioCFragment
        /\ in_speeches[i].congress_number = 118
        /\ \E k \in 1..Len(RemovePatterns(118)) :
              RemovePatterns(118)[k] = <<"jackson", "lee">>}

\* C12: in session 118 a speech with the fragment "Ms. JACKSON LEE of Texas."
\* is on no row of the table match_speakers returns.
C12_ScenarioCRemoved ==
    pc = "done" =>
        \A i \in ScenarioCSpeeches : in_speeches[i].idx \notin SpeechIds(combined_df)

\* the fragment without its state clause, which puts the speech into the first
\* name + last name bucket
ScenarioCFragmentNoState == <<"JACKSON", "LEE">>

ScenarioCSpeechesNoState ==
    {i \in 1..Len(in_speeches) :
        /\ in_speeches[i].speaker = ScenarioCFragmentNoState
        /\ in_speeches[i].congress_number = 118}

\* C12, amended: in session 118 a speech with the fragment "Ms. JACKSON LEE",
\* without a state clause, is on no row of the table match_speakers returns,
\* also when the approximate tier accepted a candidate for it.
C12_NoStateFragmentRemoved ==
    pc = "done" =>
        \A i \in ScenarioCSpeechesNoState :
            in_speeches[i].idx \notin SpeechIds(combined_df)

\* match_speakers returned, and the approximate tier had accepted a candidate
\* on the row of such a speech
C12_Witness ==
    /\ pc = "done"
    /\ \E i \in ScenarioCSpeechesNoState : \E k \in 1..Len(df_long_name) :
          /\ df_long_name[k].speech_id = in_speeches[i].idx
          /\ df_long_name[k].leg # NaN
          /\ df_long_name[k].similarity_score >= threshold

(***************************************************************************)
(* Claims about the speaker parser and the buckets.                        *)
(***************************************************************************)
\* the positions of match_speakers after the split into buckets
AfterSplit == {"match_all_3", "match_state_lastname", "match_lastname"} \cup AfterExactTiers

\* the four buckets
Buckets == <<df_all_three, df_state_lastname_only, df_lastname_only,
             df_firstname_lastname_only>>

\* C15: after speaker parsing every speech has a last name and is in exactly
\* one of the four buckets: the buckets are pairwise disjoint and their union
\* is the speech table.
C15_BucketsPartition ==
    pc \in AfterSplit =>
        /\ \A i \in 1..Len(df_speeches) : df_speeches[i].last_name # NA
        /\ \A i \in 1..Len(df_speeches) :
              Cardinality({b \in 1..4 : \E k \in 1..Len(Buckets[b]) :
                              Buckets[b][k] = df_speeches[i]}) = 1
        /\ \A b \in 1..4 : \A k \in 1..Len(Buckets[b]) :
              \E i \in 1..Len(df_speeches) : df_speeches[i] = Buckets[b][k]
        /\ Len(Buckets[1]) + Len(Buckets[2]) + Len(Buckets[3]) + Len(Buckets[4])
              = Len(df_speeches)

\* the split has put a speech with a state and no first name, and a speech
\* with neither, into their buckets
C15_Witness ==
    /\ pc = "match_all_3"
    /\ Len(df_state_lastname_only) = 1
    /\ Len(df_lastname_only) = 1

\* what the parser is to make of a fragment: the lower-cased words, cut at the
\* first "of" into the name and the state
ParsedName(toks) ==
    LET low == LowerTokens(toks)
    IN IF HasOf(low) THEN SubSeq(low, 1, FirstOf(low, 2) - 1) ELSE low

ParsedState(toks) ==
    LET low == LowerTokens(toks)
    IN IF HasOf(low) THEN Join(SubSeq(low, FirstOf(low, 2) + 1, Len(low)), " ") ELSE NA

\* row i of the parsed speech table is what the parser is to make of row i of
\* the caller's table
ParsedAsStated(i) ==
    LET name == ParsedName(in_speeches[i].speaker)
    IN /\ df_speeches[i].speaker = name
       /\ df_speeches[i].state = ParsedState(in_speeches[i].speaker)
       /\ df_speeches[i].first_name = (IF Len(name) > 1 THEN name[1] ELSE NA)
       /\ df_speeches[i].last_name = name[Len(name)]

\* C16: the parser lower-cases the fragment, sets state to the whole portion
\* after "of" and removes the clause from the name (state is missing when there
\* is no clause), sets first_name to the first remaining word (missing when one
\* word remains) and last_name to the last; also when the jurisdiction itself
\* holds " of ".
C16_ParserSplitsAtFirstOf ==
    pc \in AfterSplit \cup {"split"} =>
        \A i \in 1..Len(in_speeches) : ParsedAsStated(i)

\* the words "of" of a fragment
OfCount(toks) == Cardinality({k \in 1..Len(toks) : toks[k] = "of"})

\* on the fragments with at most one "of" the parser does as stated
ParserOnSingleOf ==
    pc \in AfterSplit \cup {"split"} =>
        \A i \in 1..Len(in_speeches) :
            OfCount(in_speeches[i].speaker) <= 1 => ParsedAsStated(i)

\* C17: constructing the matcher and running match_speakers leaves the caller's
\* speech table and roster table as they were: no step changes them.
C17_InputsUnchanged ==
    [][in_speeches' = in_speeches /\ in_roster' = in_roster]_vars

\* match_speakers has returned, having rewritten its own speech table and its
\* own roster table
C17_Witness ==
    /\ pc = "done"
    /\ df_speeches # in_speeches
    /\ df_politician_info # in_roster
    /\ \E i \in 1..Len(df_speeches) : df_speeches[i].speaker # in_speeches[i].speaker

(***************************************************************************)
(* Claims about the records of the segmenter (specification SpecSegment).  *)
(***************************************************************************)
\* the positions of a normalized text where an opener starts
OpenerPositions(text) == {p \in 1..Len(text) : Opener(text, p, TRUE).ok}

\* a run of five or more all-capitals words starts at position q
FiveCapitalWords(text, q) == CapsRun(text, q, 5) # 0

\* the closer alternatives as stated: "The SPEAKER pro tempore", a courtesy
\* title followed by "Speaker, I reserve the balance of my time", the next
\* opener, <SPEAKER_BREAK>, five or more all-capitals words, the end of the text
StatedCloser(text, q) ==
    \/ ProTempore(text, q)
    \/ ReserveBalance(text, q)
    \/ Opener(text, q, TRUE).ok
    \/ At(text, q) = SpeakerBreak
    \/ FiveCapitalWords(text, q)
    \/ q = Len(text) + 1

\* the leftmost position from start on where a stated closer matches
StatedBodyEnd(text, start) ==
    CHOOSE q \in start..(Len(text) + 1) :
        StatedCloser(text, q) /\ \A x \in start..(q - 1) : ~StatedCloser(text, x)

\* one record per opener of the text, in text order
OneRecordPerOpener ==
    \A i \in 1..Len(matches) :
        /\ Len(matches[i]) = Cardinality(OpenerPositions(cleaned_text[i]))
        /\ \A k \in 1..Len(matches[i]) :
              matches[i][k].opener = SortedSeq(OpenerPositions(cleaned_text[i]))[k]

\* C18: the segmenter emits one record per opener of the normalized text, in
\* text order; the body of a record is the trimmed text from the end of its
\* opener to the leftmost position where a closer alternative matches, and no
\* closer alternative matches inside a body.
C18_OneRecordPerOpenerUpToCloser ==
    /\ OneRecordPerOpener
    /\ \A i \in 1..Len(matches) : \A k \in 1..Len(matches[i]) :
          LET text == cleaned_text[i]
              m    == matches[i][k]
          IN /\ m.speech = Strip(Slice(text, m.body_start,
                                       StatedBodyEnd(text, m.body_start) - 1))
             /\ \A x \in m.body_start..(m.body_end - 1) : ~StatedCloser(text, x)

(***************************************************************************)
(* Claims about the cleanup of the approximate tier.                       *)
(***************************************************************************)
\* the exception list L of the session of the speech table
ExceptionList == RemovePatterns(in_speeches[1].congress_number)

\* the speaker fragment of a speech, as the caller gave it
FragmentOf(id) == (CHOOSE r \in Range(in_speeches) : r.idx = id).speaker

====
